---- MODULE Spec2Model ----
(***************************************************************************)
(* Battery dispatch optimisation (models/dispatch_opt.py) and the profit   *)
(* and NPV post-processing (post_processing/finance_calcs.py).             *)
(*                                                                         *)
(* Numbers.  Powers (MW), prices ($/MWh), the time step (hours) and the    *)
(* capacity (MWh) are integers.  Fractions (state of charge, efficiency,   *)
(* self-discharge, discount rates, discounted money) are exact rationals   *)
(* <<numerator, denominator>> with a positive denominator; the Python      *)
(* code computes the same expressions in floating point.                   *)
(* Decision variables range over finite grids: the solver's reals are      *)
(* sampled on PGrid, SGrid and PmGrid.                                     *)
(***************************************************************************)
EXTENDS Integers, Sequences, FiniteSets, TLC

(* ------------------------------ bounds --------------------------------- *)

\* longest horizon len(input_ts)
MaxT == 3
\* largest charge / discharge power on the grid (MW)
MaxPower == 2
\* the state of charge is sampled in steps of 1/SOCDen
SOCDen == 4

(* ---------------------------- rationals -------------------------------- *)

Q(n) == <<n, 1>>
QAdd(a, b) == LET x == a  y == b IN <<x[1] * y[2] + y[1] * x[2], x[2] * y[2]>>
QSub(a, b) == LET x == a  y == b IN <<x[1] * y[2] - y[1] * x[2], x[2] * y[2]>>
QMul(a, b) == LET x == a  y == b IN <<x[1] * y[1], x[2] * y[2]>>
QDiv(a, b) == LET x == a  y == b
              IN  IF y[1] < 0 THEN <<(0 - x[1]) * y[2], x[2] * (0 - y[1])>>
                  ELSE <<x[1] * y[2], x[2] * y[1]>>
QEq(a, b) == LET x == a  y == b IN x[1] * y[2] = y[1] * x[2]
QLe(a, b) == LET x == a  y == b IN x[1] * y[2] <= y[1] * x[2]
QLt(a, b) == LET x == a  y == b IN x[1] * y[2] < y[1] * x[2]

RECURSIVE QPowNat(_, _)
QPowNat(a, k) == IF k = 0 THEN Q(1) ELSE QMul(a, QPowNat(a, k - 1))

\* a ** k for an integer exponent k of either sign (a > 0)
QPow(a, k) == IF k >= 0 THEN QPowNat(a, k) ELSE QDiv(Q(1), QPowNat(a, 0 - k))

(* ------------------------------ inputs --------------------------------- *)

\* prices the series are drawn from ($/MWh)
LMPDom == {0, 1, 10}

\* input_ts: the 'LMP' and 'load' columns, labelled 0..T-1
TimeSeries ==
    UNION { { [LMP |-> lmp, load |-> [t \in 0..(T - 1) |-> l]] :
              lmp \in [0..(T - 1) -> LMPDom], l \in {0, 1} } : T \in 1..MaxT }

Battery(E, pc_, pd_, smin, smax, s0, eta, self) ==
    [Emax |-> E, P_c_max |-> pc_, P_d_max |-> pd_, SOC_min |-> smin,
     SOC_max |-> smax, SOC_start |-> s0, delta_t |-> 1,
     eta_conv |-> eta, eta_self |-> self]

\* input_scalar: the battery parameter sets
Batteries ==
    { Battery(1, 1, 1, <<0, 1>>, <<1, 1>>, <<0, 1>>, <<1, 1>>, <<0, 1>>),
      Battery(2, 1, 1, <<0, 1>>, <<1, 1>>, <<1, 2>>, <<1, 1>>, <<0, 1>>),
      Battery(2, MaxPower, 1, <<0, 1>>, <<1, 1>>, <<0, 1>>, <<1, 1>>, <<0, 1>>),
      Battery(4, MaxPower, MaxPower, <<1, 4>>, <<3, 4>>, <<1, 2>>, <<1, 1>>, <<0, 1>>),
      Battery(2, MaxPower, MaxPower, <<0, 1>>, <<1, 1>>, <<1, 2>>, <<1, 2>>, <<0, 1>>),
      Battery(4, MaxPower, MaxPower, <<0, 1>>, <<1, 1>>, <<1, 2>>, <<1, 1>>, <<1, 2>>),
      Battery(1, 1, 1, <<1, 2>>, <<1, 1>>, <<0, 1>>, <<1, 1>>, <<0, 1>>) }

(* ------------------------------- state --------------------------------- *)

VARIABLES
    pc,               \* "start" | "solved" | "done" | "raised"
    input_ts,         \* the time series the model is built from
    input_scalar,     \* the battery parameters
    m,                \* the Pyomo model: parameters, variable values, status
    profit_ts,        \* the 'LMP' and 'load' columns handed to calculate_profit
    interval_start,   \* the 'INTERVAL_START' column handed to calculate_profit
    finance_inputs,   \* the finance parameters handed to calculate_profit
    df_results,       \* the result table
    daily_finances,   \* the daily finance table
    npv_op_profit     \* the NPV

vars == <<pc, input_ts, input_scalar, m, profit_ts, interval_start, finance_inputs,
          df_results, daily_finances, npv_op_profit>>

NoValue == "None"
NoModel == [kind |-> "none"]
NoTable == <<>>

(* ------------------------- the dispatch model -------------------------- *)

PGrid == 0..MaxPower
\* the states of charge the solver chooses from: the multiples of 1/SOCDen and
\* the levels the battery parameter sets name
SOCLevels == { <<0, 1>>, <<1, 4>>, <<1, 2>>, <<3, 4>>, <<1, 1>> }
SGrid ==
    LET steps == { <<k, SOCDen>> : k \in 0..SOCDen }
    IN  steps \cup { q \in SOCLevels : \A s \in steps : ~QEq(q, s) }
PmGrid == (0 - MaxPower)..(MaxPower + 1)
UGrid(kind) == IF kind = "battery_model_no_eff" THEN {0, 1} ELSE {NoValue}

\* The parameters of the ConcreteModel, before any variable has a value.
BuildModel(kind, ts, scalar) ==
    [kind |-> kind,
     t |-> 0..(Cardinality(DOMAIN ts.LMP) - 1),
     P_d_max |-> scalar.P_d_max, P_c_max |-> scalar.P_c_max,
     Emax |-> scalar.Emax, SOC_min |-> scalar.SOC_min, SOC_max |-> scalar.SOC_max,
     SOC_start |-> scalar.SOC_start,
     delta_t |-> scalar.delta_t, eta_conv |-> scalar.eta_conv,
     eta_self |-> scalar.eta_self,
     LMP |-> [t \in 0..(Cardinality(DOMAIN ts.LMP) - 1) |-> ts.LMP[t]],
     P_l |-> [t \in 0..(Cardinality(DOMAIN ts.LMP) - 1) |-> ts.load[t]],
     P_d |-> <<>>, P_c |-> <<>>, S |-> <<>>, P_m |-> <<>>, u |-> <<>>,
     status |-> "built"]

\* the discharge entering the balance with the sign of the charge
power_balance_rule_sign(mm, t) == mm.P_m[t] = mm.P_c[t] + mm.P_d[t] + mm.P_l[t]

power_balance_rule(mm, t) == mm.P_m[t] = mm.P_c[t] - mm.P_d[t] + mm.P_l[t]

\* The right-hand side of the state-of-charge recurrence: the state of charge
\* reached from index t by the charge and discharge of interval t.
soc_after(mm, t) ==
    QAdd(QMul(mm.S[t], QSub(Q(1), QMul(mm.eta_self, Q(mm.delta_t)))),
         QMul(QDiv(Q(mm.delta_t), Q(mm.Emax)),
              QSub(QMul(Q(mm.P_c[t]), mm.eta_conv),
                   QDiv(Q(mm.P_d[t]), mm.eta_conv))))

storage_state_rule(mm, t) ==
    IF t = 0
    THEN QEq(mm.S[t], mm.SOC_start)
    ELSE QEq(mm.S[t], soc_after(mm, t - 1))

\* the discharge limited by the capacity instead of the stored energy
storage_power_rule_capacity(mm, t) ==
    QLe(Q(mm.P_d[t] * mm.delta_t), Q(mm.Emax))

\* the discharged energy strictly below the stored energy
storage_power_rule_strict(mm, t) ==
    QLt(Q(mm.P_d[t] * mm.delta_t), QMul(Q(mm.Emax), mm.S[t]))

storage_power_rule(mm, t) ==
    QLe(Q(mm.P_d[t] * mm.delta_t), QMul(Q(mm.Emax), mm.S[t]))

\* the terminal index taken one past the last one: the rule is skipped everywhere
boundary_conditions_rule_past_end(mm, t) ==
    IF t = Cardinality(mm.t)
    THEN QEq(mm.S[t], mm.SOC_start)
    ELSE TRUE

boundary_conditions_rule(mm, t) ==
    IF t = Cardinality(mm.t) - 1
    THEN QEq(mm.S[t], mm.SOC_start)
    ELSE TRUE

\* the charge held to the discharge limit
max_charge_power_rule_swapped(mm, t) == mm.P_c[t] <= mm.P_d_max

max_charge_power_rule(mm, t) == mm.P_c[t] <= mm.P_c_max

max_discharge_power_rule(mm, t) == mm.P_d[t] <= mm.P_d_max

max_charge_power_rule_no_eff(mm, t) == mm.P_c[t] <= mm.P_c_max * mm.u[t]

\* the discharge limit without the binary gate
max_discharge_power_rule_ungated(mm, t) == mm.P_d[t] <= mm.P_d_max

max_discharge_power_rule_no_eff(mm, t) == mm.P_d[t] <= mm.P_d_max * (1 - mm.u[t])

soc_min_rule(mm, t) == QLe(mm.SOC_min, mm.S[t])

\* the upper bound taken as the full capacity instead of SOC_max
soc_max_rule_full(mm, t) == QLe(mm.S[t], Q(1))

soc_max_rule(mm, t) == QLe(mm.S[t], mm.SOC_max)

\* The constraints of index t on the state of charge alone.
SocConstraints(mm, t) ==
    /\ storage_state_rule(mm, t)
    /\ boundary_conditions_rule(mm, t)
    /\ soc_min_rule(mm, t)
    /\ soc_max_rule(mm, t)

\* The constraints of index t on the charge and discharge power.
PowerConstraints(mm, t) ==
    /\ storage_power_rule(mm, t)
    /\ IF mm.kind = "battery_model_no_eff"
       THEN /\ max_charge_power_rule_no_eff(mm, t)
            /\ max_discharge_power_rule_no_eff(mm, t)
       ELSE /\ max_charge_power_rule(mm, t)
            /\ max_discharge_power_rule(mm, t)

\* Every constraint of index t.
Constraints(mm, t) ==
    /\ SocConstraints(mm, t)
    /\ PowerConstraints(mm, t)
    /\ power_balance_rule(mm, t)

\* A point satisfies the model when every constraint holds at every index.
Feasible(mm) == \A t \in mm.t : Constraints(mm, t)

RECURSIVE SumTo(_, _)
SumTo(f, n) == IF n < 0 THEN 0 ELSE f[n] + SumTo(f, n - 1)

\* sum(m.LMP[t] * m.P_m[t] * m.delta_t for t in m.t)
objective(mm) ==
    SumTo([t \in mm.t |-> mm.LMP[t] * mm.P_m[t] * mm.delta_t], Cardinality(mm.t) - 1)

(* ------------------------------ the solver ----------------------------- *)

Ext(f, t, v) == [i \in 0..t |-> IF i = t THEN v ELSE f[i]]

\* The values of index t added to a point that has values for 0..t-1.
Extend(mm, t, c, pm) ==
    [mm EXCEPT !.P_c = Ext(mm.P_c, t, c.P_c), !.P_d = Ext(mm.P_d, t, c.P_d),
               !.S = Ext(mm.S, t, c.S), !.u = Ext(mm.u, t, c.u),
               !.P_m = Ext(mm.P_m, t, pm)]

\* The points that extend point p by values of index t and satisfy every
\* constraint of index t: the state of charge is fixed first, then the powers,
\* then the net power.
Extensions(p, t) ==
    LET Sok == { s \in SGrid :
                 SocConstraints(Extend(p, t, [P_c |-> 0, P_d |-> 0, S |-> s, u |-> 0], 0), t) }
        Cok == { d \in [P_c : PGrid, P_d : PGrid, S : Sok, u : UGrid(p.kind)] :
                 PowerConstraints(Extend(p, t, d, 0), t) }
    IN  UNION { { Extend(p, t, c, pm) :
                  pm \in { q \in PmGrid : power_balance_rule(Extend(p, t, c, q), t) } } :
                c \in Cok }

\* The grid points that satisfy every constraint of the indices 0..t.  Each
\* constraint of index t reads the indices t-1 and t only, so the points are
\* built index by index.
RECURSIVE Prefixes(_, _)
Prefixes(mm, t) ==
    IF t < 0 THEN {mm}
    ELSE UNION { Extensions(p, t) : p \in Prefixes(mm, t - 1) }

FeasibleSet(mm) == Prefixes(mm, Cardinality(mm.t) - 1)

MinOf(S) == CHOOSE x \in S : \A y \in S : x <= y

\* The points of F an exact solver may return with status optimal.
OptimalSet(F) ==
    LET best == MinOf({ objective(x) : x \in F })
    IN  { x \in F : objective(x) = best }

\* the solve returning to the caller with no value loaded into the variables
NoFeasibleSolution_returned(mm) ==
    LET none == [t \in mm.t |-> NoValue]
    IN  [model |-> [mm EXCEPT !.P_c = none, !.P_d = none, !.S = none, !.P_m = none,
                              !.status = "infeasible"],
         pc |-> "solved"]

\* solver.solve(m) on a model with no feasible point: the solver interface is
\* asked to load the solution (the default of solve), finds none to load and
\* raises; battery_model catches nothing and the exception reaches the caller.
NoFeasibleSolution(mm) ==
    [model |-> [mm EXCEPT !.status = "infeasible"], pc |-> "raised"]

\* solver.solve(m): an optimal point is loaded into the model and the model
\* is returned; with no feasible point the call raises.
Solve(kind) ==
    /\ pc = "start"
    /\ LET built == BuildModel(kind, input_ts, input_scalar)
           F == FeasibleSet(built)
       IN  IF F # {}
           THEN /\ \E x \in OptimalSet(F) : m' = [x EXCEPT !.status = "optimal"]
                /\ pc' = "solved"
           ELSE /\ m' = NoFeasibleSolution(built).model
                /\ pc' = NoFeasibleSolution(built).pc
    /\ UNCHANGED <<input_ts, input_scalar, profit_ts, interval_start, finance_inputs,
                   df_results, daily_finances, npv_op_profit>>

battery_model == Solve("battery_model")

battery_model_no_eff == Solve("battery_model_no_eff")

(* ------------------------- post-processing ----------------------------- *)

\* pandas resamples on calendar days and Timedelta.days counts whole days
HoursPerDay == 24

\* 'INTERVAL_START': hours since midnight of a reference day, one row per
\* label 0..T-1, `step` hours apart
StartHours == {0, 23}
StepHours == {1, HoursPerDay}
Timestamps(T, start, step) == [t \in 0..(T - 1) |-> start + t * step]

\* finance_inputs.  The real discount rate and the inflation rate reach the
\* discounting through daily_discount_rate alone, and every daily rate r > -1
\* is the image of one nominal rate, (1 + r)^365 - 1; the 365th root is not a
\* rational, so the daily rate itself is the input here.
Rates == { <<0, 1>>, <<1, 2>>, <<1, 1>> }
FinanceInputs ==
    [Time_Step : {1}, daily_discount_rate : Rates]
        \cup [Time_Step : {2}, daily_discount_rate : {<<1, 2>>}]

\* every row read from the first label instead of its own
AlignColumn_first(col, index) == [i \in index |-> col[0]]

\* A column of `frame` assigned to a table indexed by `index`: pandas aligns
\* on the index labels.
AlignColumn(col, index) == [i \in index |-> col[i]]

\* extract_results: the values of the model's variables by position, the
\* columns of the time series by label.
extract_results(mm, ts, stamps) ==
    LET index == 0..(Cardinality(mm.t) - 1)
        time == AlignColumn(stamps, index)
        lmp == AlignColumn(ts.LMP, index)
        load == AlignColumn(ts.load, index)
    IN  [i \in index |->
            [P_d |-> mm.P_d[i], P_c |-> mm.P_c[i], S |-> mm.S[i], P_m |-> mm.P_m[i],
             time |-> time[i], LMP |-> lmp[i], load |-> load[i]]]

\* The profit columns, and the variables under their reporting names.
ProfitRow(row, fin) ==
    LET profit == (0 - 1) * row.LMP * row.P_m * fin.Time_Step
        no_battery_profit == (0 - 1) * row.LMP * row.load * fin.Time_Step
    IN  [time |-> row.time, LMP |-> row.LMP, load |-> row.load,
         Discharge_Power |-> row.P_d, Charge_Power |-> row.P_c,
         SOC |-> row.S, Grid_Power |-> row.P_m,
         profit |-> profit, no_battery_profit |-> no_battery_profit,
         battery_profit |-> profit - no_battery_profit]

\* floor(a / b) for b > 0
FloorDiv(a, b) == IF a >= 0 THEN a \div b ELSE 0 - ((b - 1 - a) \div b)

DayOf(h) == FloorDiv(h, HoursPerDay)

RECURSIVE SumOver(_, _)
SumOver(f, D) ==
    IF D = {} THEN 0
    ELSE LET d == CHOOSE x \in D : TRUE IN f[d] + SumOver(f, D \ {d})

RECURSIVE QSumOver(_, _)
QSumOver(f, D) ==
    IF D = {} THEN Q(0)
    ELSE LET d == CHOOSE x \in D : \A y \in D : x <= y
         IN  QAdd(f[d], QSumOver(f, D \ {d}))

MaxOf(S) == CHOOSE x \in S : \A y \in S : x >= y

\* df.set_index('time (hours)')[['battery_profit']].resample('D').sum(): one
\* row per calendar day from the first to the last timestamp, labelled by
\* the day's midnight.
ResampleDaily(df) ==
    LET times == { df[i].time : i \in DOMAIN df }
        days == DayOf(MinOf(times))..DayOf(MaxOf(times))
    IN  [d \in days |->
            SumOver([i \in DOMAIN df |-> df[i].battery_profit],
                    { i \in DOMAIN df : DayOf(df[i].time) = d })]

\* the days counted from the calendar epoch instead of the first timestamp
day_of_sim_epoch(d, start_date) == d

\* (midnight of day d - start_date).days
day_of_sim(d, start_date) == FloorDiv(d * HoursPerDay - start_date, HoursPerDay)

\* the discount factor multiplied instead of divided
discounted_profit_compounded(battery_profit, rate, k) ==
    QMul(Q(battery_profit), QPow(QAdd(Q(1), rate), k))

\* battery_profit / (1 + daily_discount_rate) ** day_of_sim
discounted_profit(battery_profit, rate, k) ==
    QDiv(Q(battery_profit), QPow(QAdd(Q(1), rate), k))

DailyFinances(df, rate) ==
    LET start_date == MinOf({ df[i].time : i \in DOMAIN df })
        daily == ResampleDaily(df)
    IN  [d \in DOMAIN daily |->
            [battery_profit |-> daily[d],
             day_of_sim |-> day_of_sim(d, start_date),
             discounted_profit |->
                 discounted_profit(daily[d], rate, day_of_sim(d, start_date))]]

\* daily_finances['discounted_profit'].sum()
NPV(daily) == QSumOver([d \in DOMAIN daily |-> daily[d].discounted_profit], DOMAIN daily)

\* The series `ts` with one more row after its last one, under the next label.
Longer(ts) ==
    LET T == Cardinality(DOMAIN ts.LMP)
    IN  [LMP |-> [t \in 0..T |-> IF t < T THEN ts.LMP[t] ELSE 10],
         load |-> [t \in 0..T |-> IF t < T THEN ts.load[t] ELSE 1]]

\* The arguments of a call of calculate_profit on a model built from `ts`:
\* the series the model was built from, with every timestamp column and every
\* finance input, and a series one row longer than the model's horizon.
ProfitCalls(ts) ==
    [ts : {ts}, start : StartHours, step : StepHours, fin : FinanceInputs]
        \cup [ts : {Longer(ts)}, start : {0}, step : {1},
              fin : [Time_Step : {1}, daily_discount_rate : {<<1, 2>>}]]

\* calculate_profit(m, input_ts, finance_inputs) on the model a call of
\* battery_model or battery_model_no_eff returned.
calculate_profit ==
    /\ pc = "solved"
    /\ \E call \in ProfitCalls(input_ts) :
          LET fin == call.fin
              T == Cardinality(DOMAIN call.ts.LMP)
              stamps == Timestamps(T, call.start, call.step)
              extracted == extract_results(m, call.ts, stamps)
              df == [i \in DOMAIN extracted |-> ProfitRow(extracted[i], fin)]
              daily == DailyFinances(df, fin.daily_discount_rate)
          IN  /\ profit_ts' = call.ts
              /\ interval_start' = stamps
              /\ finance_inputs' = fin
              /\ df_results' = df
              /\ daily_finances' = daily
              /\ npv_op_profit' = NPV(daily)
    /\ pc' = "done"
    /\ UNCHANGED <<input_ts, input_scalar, m>>

(* --------------------------- specification ----------------------------- *)

Init ==
    /\ pc = "start"
    /\ input_ts \in TimeSeries
    /\ input_scalar \in Batteries
    /\ m = NoModel
    /\ profit_ts = NoTable
    /\ interval_start = NoTable
    /\ finance_inputs = NoValue
    /\ df_results = NoTable
    /\ daily_finances = NoTable
    /\ npv_op_profit = NoValue

Next ==
    \/ battery_model
    \/ battery_model_no_eff
    \/ calculate_profit

Spec == Init /\ [][Next]_vars

(* ------------------------------- claims -------------------------------- *)

\* A solve that ended with status optimal and loaded its point into m.  The
\* constraints do not read the prices, and under an all-zero price series,
\* which TimeSeries holds, every feasible point is optimal: the returned points
\* range over every feasible point of the grid.
Solved == pc \in {"solved", "done"} /\ m.status = "optimal"

Horizon == Cardinality(m.t)

\* C1: in every solution of either formulation the state of charge stays
\* within [SOC_min, SOC_max] at every time index.
C1_SocWithinBounds ==
    Solved => \A t \in m.t : /\ QLe(input_scalar.SOC_min, m.S[t])
                             /\ QLe(m.S[t], input_scalar.SOC_max)

\* a solution of the gated formulation that reaches SOC_max < 1 away from the
\* starting state of charge
C1_Witness ==
    /\ Solved
    /\ m.kind = "battery_model_no_eff"
    /\ QLt(input_scalar.SOC_max, Q(1))
    /\ \E t \in m.t : /\ QEq(m.S[t], input_scalar.SOC_max)
                      /\ ~QEq(m.S[t], input_scalar.SOC_start)

\* C2: for every horizon T >= 1, T = 1 included, every solution has
\* S[0] = SOC_start and S[T-1] = SOC_start.
C2_BoundarySoc ==
    (Solved /\ Horizon >= 1) =>
        /\ QEq(m.S[0], input_scalar.SOC_start)
        /\ QEq(m.S[Horizon - 1], input_scalar.SOC_start)

\* a one-step horizon, where both constraints fall on index 0, with the
\* battery discharging
C2_Witness == Solved /\ Horizon = 1 /\ m.P_d[0] > 0

\* C3: in the binary-gated formulation no index has both a positive charge
\* and a positive discharge.
C3_MutualExclusion ==
    (Solved /\ m.kind = "battery_model_no_eff") =>
        \A t \in m.t : /\ m.P_c[t] > 0 => m.P_d[t] = 0
                       /\ m.P_d[t] > 0 => m.P_c[t] = 0

\* a gated solution that charges at one index and discharges at another
C3_Witness ==
    /\ Solved
    /\ m.kind = "battery_model_no_eff"
    /\ \E t1, t2 \in m.t : m.P_c[t1] > 0 /\ m.P_d[t2] > 0

\* The stored energy is E_max * S; the battery is back at its starting energy
\* after interval t when the recurrence stepped from index t gives SOC_start.
BackAtStart(t) == QEq(soc_after(m, t), input_scalar.SOC_start)

\* C4: in every solution the state of charge after the charge and discharge
\* of the last interval T-1 equals SOC_start.
C4_ReturnsToStart == Solved => BackAtStart(Horizon - 1)

FlatPrice == \A t1, t2 \in m.t : input_ts.LMP[t1] = input_ts.LMP[t2]
ZeroLoad == \A t \in m.t : input_ts.load[t] = 0
Lossless == QEq(input_scalar.eta_conv, Q(1)) /\ QEq(input_scalar.eta_self, Q(0))
StartWithinBounds ==
    /\ QLe(input_scalar.SOC_min, input_scalar.SOC_start)
    /\ QLe(input_scalar.SOC_start, input_scalar.SOC_max)
Idle == \A t \in m.t : m.P_c[t] = 0 /\ m.P_d[t] = 0

\* C5: with a constant price, zero load, efficiency 1, no self-discharge and
\* SOC_start within the bounds, the optimal objective is 0.
C5_FlatPriceNoArbitrage ==
    (Solved /\ m.kind = "battery_model" /\ FlatPrice /\ ZeroLoad /\ Lossless
       /\ StartWithinBounds)
        => objective(m) = 0

UnitBounds ==
    /\ QEq(input_scalar.SOC_min, Q(0))
    /\ QEq(input_scalar.SOC_max, Q(1))
    /\ QEq(input_scalar.SOC_start, Q(0))
    /\ input_scalar.Emax >= 1
    /\ input_scalar.delta_t = 1

ThreeStepScenario ==
    /\ Horizon = 3
    /\ input_ts.LMP = [t \in 0..2 |-> IF t = 1 THEN 1 ELSE 10]
    /\ ZeroLoad
    /\ UnitBounds

TotalBatteryProfit ==
    SumOver([i \in DOMAIN df_results |-> df_results[i].battery_profit], DOMAIN df_results)

\* C6: in the 3-step scenario (prices 10, 1, 10, SOC_start 0) the optimal
\* schedule has P_d[0] = 0, charges at step 1, discharges at step 2 and its
\* total battery_profit is positive.
C6_ThreeStepCycle ==
    (pc = "done" /\ m.kind = "battery_model" /\ ThreeStepScenario) =>
        /\ m.P_d[0] = 0
        /\ m.P_c[1] > 0
        /\ m.P_d[2] > 0
        /\ TotalBatteryProfit > 0

TwoStepScenario ==
    /\ Cardinality(DOMAIN input_ts.LMP) = 2
    /\ input_ts.LMP = [t \in 0..1 |-> IF t = 0 THEN 10 ELSE 1]
    /\ \A t \in 0..1 : input_ts.load[t] = 0
    /\ UnitBounds

\* C7 as stated: in the 2-step scenario (prices 10, 1, SOC_start 0) the
\* problem is infeasible.
C7_TwoStepInfeasible ==
    (pc # "start" /\ TwoStepScenario) => m.status = "infeasible"

\* C7 amended: in the 2-step scenario the problem is feasible, and its optimal
\* solution is the idle schedule, with objective 0.
C7_TwoStepIdleOptimal ==
    (pc # "start" /\ TwoStepScenario) =>
        /\ m.status = "optimal"
        /\ Idle
        /\ objective(m) = 0

\* the 2-step scenario solved by the gated formulation
C7_Witness ==
    /\ pc = "solved"
    /\ TwoStepScenario
    /\ m.kind = "battery_model_no_eff"
    /\ m.status = "optimal"

\* C8: every row t of the result table has profit = -LMP[t] * P_m[t] * dt,
\* no_battery_profit = -LMP[t] * load[t] * dt and battery_profit = profit -
\* no_battery_profit, with LMP and load of index t of the input series and
\* P_m of index t of the solved model; dt is the time step calculate_profit
\* is given.
C8_ProfitRows ==
    pc = "done" =>
        \A t \in DOMAIN df_results :
            LET row == df_results[t]
                dt == finance_inputs.Time_Step
            IN  /\ t \in m.t
                /\ row.profit = 0 - input_ts.LMP[t] * m.P_m[t] * dt
                /\ row.no_battery_profit = 0 - input_ts.LMP[t] * input_ts.load[t] * dt
                /\ row.battery_profit = row.profit - row.no_battery_profit

\* a table of three rows with different prices and different net powers,
\* load present, the battery earning in one row and paying in another
C8_Witness ==
    /\ pc = "done"
    /\ Horizon = 3
    /\ input_ts.LMP[0] # input_ts.LMP[1]
    /\ m.P_m[0] # m.P_m[1]
    /\ input_ts.load[0] = 1
    /\ \E t1, t2 \in DOMAIN df_results :
          df_results[t1].battery_profit > 0 /\ df_results[t2].battery_profit < 0

\* The NPV of the daily table's battery_profit series, discounted at daily
\* rate r over the table's day_of_sim.
NpvAt(r) ==
    NPV([d \in DOMAIN daily_finances |->
            [discounted_profit |->
                discounted_profit(daily_finances[d].battery_profit, r,
                                  daily_finances[d].day_of_sim)]])

NpvNonIncreasing ==
    LET npv == [r \in Rates |-> NpvAt(r)]
    IN  \A r1, r2 \in Rates : QLe(r1, r2) => QLe(npv[r2], npv[r1])

\* C9 as stated: for every profit series the pipeline produces, the NPV is
\* non-increasing in the discount rate.  Stated for the tables whose first
\* timestamp is a midnight, where day_of_sim counts the days from the first
\* timestamp.
C9_NpvMonotone ==
    (pc = "done" /\ interval_start[0] % HoursPerDay = 0) => NpvNonIncreasing

\* no day's profit is discounted the wrong way: a profit on a day of positive
\* day_of_sim is not negative, one on a day of negative day_of_sim not positive
SignedSeries ==
    \A d \in DOMAIN daily_finances :
        daily_finances[d].battery_profit * daily_finances[d].day_of_sim >= 0

\* C9 amended: the NPV is non-increasing in the daily discount rate (r >= 0)
\* for every profit series in which battery_profit[day] * day_of_sim[day] >= 0
\* on every day.
C9_NpvMonotoneSigned == (pc = "done" /\ SignedSeries) => NpvNonIncreasing

\* a signed series with a profit on a later day, whose NPV strictly falls
C9_Witness ==
    /\ pc = "done"
    /\ SignedSeries
    /\ \E d \in DOMAIN daily_finances :
          daily_finances[d].day_of_sim >= 1 /\ daily_finances[d].battery_profit > 0
    /\ QLt(NpvAt(<<1, 1>>), NpvAt(<<0, 1>>))

\* C10: day_of_sim is the number of calendar days from the day of the first
\* timestamp, 0 on that day and never negative, and discounted_profit is
\* battery_profit / (1 + daily_rate)^day_of_sim.
C10_DayOfSimElapsed ==
    pc = "done" =>
        LET first == DayOf(MinOf({ df_results[i].time : i \in DOMAIN df_results }))
        IN  \A d \in DOMAIN daily_finances :
                /\ daily_finances[d].day_of_sim = d - first
                /\ daily_finances[d].day_of_sim >= 0
                /\ QEq(daily_finances[d].discounted_profit,
                       QDiv(Q(daily_finances[d].battery_profit),
                            QPow(QAdd(Q(1), finance_inputs.daily_discount_rate), d - first)))

\* The schedule mm with x added to both the charge and the discharge of index t.
Shifted(mm, t, x) ==
    [mm EXCEPT !.P_c[t] = @ + x, !.P_d[t] = @ + x]

\* the power charged and discharged at once at index t
Overlap(mm, t) == IF mm.P_c[t] <= mm.P_d[t] THEN mm.P_c[t] ELSE mm.P_d[t]

\* C11: in battery_model with eta_conv = 1 and eta_self = 0, adding the same
\* x >= 0 to P_c[t] and P_d[t] at any index t leaves P_m[t], every S[t] and the
\* objective as they are: the power balance and the state-of-charge recurrence
\* still hold with the same P_m and S.  The schedule with the simultaneous
\* equal charge and discharge taken out is a schedule of the same objective.
C11_ShiftInvariant ==
    (Solved /\ m.kind = "battery_model" /\ Lossless) =>
        \A t \in m.t :
            /\ \A x \in 0..MaxPower :
                  LET sh == Shifted(m, t, x)
                  IN  /\ power_balance_rule(sh, t)
                      /\ \A i \in m.t : storage_state_rule(sh, i)
                      /\ \A i \in m.t : i + 1 \notin m.t => QEq(soc_after(sh, i), soc_after(m, i))
                      /\ objective(sh) = objective(m)
            /\ LET without == Shifted(m, t, 0 - Overlap(m, t))
               IN  /\ Feasible(without)
                   /\ objective(without) = objective(m)

\* a lossless solution that charges and discharges at once at an index that
\* is not the last, with the state of charge moving on from there
C11_Witness ==
    /\ Solved
    /\ m.kind = "battery_model"
    /\ Lossless
    /\ \E t \in m.t : /\ t + 1 \in m.t
                      /\ m.P_c[t] > m.P_d[t]
                      /\ m.P_d[t] > 0

\* C12: result extraction fails, and no result table is returned, whenever the
\* series handed to calculate_profit has not exactly the horizon length of the
\* series the model was built from: a result table exists only for a series
\* of the model's horizon length.
C12_MisalignedSeriesFails ==
    df_results # NoTable => Cardinality(DOMAIN profit_ts.LMP) = Horizon

ShiftDays == {-1, 7}

\* The result table with every timestamp moved by k whole days.
ShiftedTable(df, k) ==
    [i \in DOMAIN df |-> [df[i] EXCEPT !.time = @ + k * HoursPerDay]]

\* C14: discounting is anchored to the first timestamp.  Moving every
\* timestamp of the result table by the same whole number of days, with the
\* same profits, gives the same daily rows k days later: the same daily
\* battery_profit, day_of_sim and discounted_profit on every day, and the
\* same NPV.
C14_ShiftInvariantDiscounting ==
    pc = "done" =>
        \A k \in ShiftDays :
            LET moved == DailyFinances(ShiftedTable(df_results, k),
                                       finance_inputs.daily_discount_rate)
            IN  /\ DOMAIN moved = { d + k : d \in DOMAIN daily_finances }
                /\ \A d \in DOMAIN daily_finances :
                      /\ moved[d + k].battery_profit = daily_finances[d].battery_profit
                      /\ moved[d + k].day_of_sim = daily_finances[d].day_of_sim
                      /\ QEq(moved[d + k].discounted_profit,
                             daily_finances[d].discounted_profit)
                /\ QEq(NPV(moved), npv_op_profit)

\* a table of several days with a positive rate and a profit after the first
\* day, so that the discounting changes the NPV
C14_Witness ==
    /\ pc = "done"
    /\ QLt(Q(0), finance_inputs.daily_discount_rate)
    /\ \E d \in DOMAIN daily_finances :
          /\ daily_finances[d].day_of_sim >= 2
          /\ daily_finances[d].battery_profit > 0
          /\ ~QEq(daily_finances[d].discounted_profit,
                  Q(daily_finances[d].battery_profit))

\* sum over the rows of the result table of column `profit`
TotalProfit ==
    SumOver([i \in DOMAIN df_results |-> df_results[i].profit], DOMAIN df_results)

\* C15: the sum over all rows of `profit` is minus the objective the solver
\* minimized, sum over t of LMP[t] * P_m[t] * delta_t: the time step of the
\* profit is the delta_t the model was built with.
C15_ProfitIsNegatedObjective ==
    pc = "done" => TotalProfit = 0 - objective(m)

\* The schedule of a battery_model_no_eff solution as a point of battery_model
\* on the same inputs: the same P_c, P_d, S and P_m, and no binary.
AsBatteryModel(mm) ==
    [mm EXCEPT !.kind = "battery_model", !.u = [t \in mm.t |-> NoValue],
               !.status = "built"]

\* C16: for identical inputs every schedule feasible for battery_model_no_eff
\* is feasible for battery_model, with the same objective, and so the optimal
\* cost of battery_model is not above the optimal cost of battery_model_no_eff.
\* Stated on the model as the solve returns it; calculate_profit leaves it as
\* it is.
C16_GatedRefinesUngated ==
    (pc = "solved" /\ m.kind = "battery_model_no_eff") =>
        LET F == FeasibleSet(BuildModel("battery_model", input_ts, input_scalar))
        IN  /\ Feasible(AsBatteryModel(m))
            /\ \A t \in m.t : power_balance_rule(AsBatteryModel(m), t)
            /\ AsBatteryModel(m) \in F
            /\ objective(AsBatteryModel(m)) = objective(m)
            /\ MinOf({ objective(x) : x \in F }) <= objective(m)

\* a gated solution that charges at the charge limit, above the discharge
\* limit, and earns money
C16_Witness ==
    /\ pc = "solved"
    /\ m.kind = "battery_model_no_eff"
    /\ objective(m) < 0
    /\ \E t \in m.t : m.P_c[t] = m.P_c_max /\ m.P_c_max > m.P_d_max

\* The idle schedule of a built model: no charge, no discharge, the state of
\* charge held at SOC_start and the net power equal to the load.
IdleSchedule(mm) ==
    [mm EXCEPT !.P_c = [t \in mm.t |-> 0], !.P_d = [t \in mm.t |-> 0],
               !.S = [t \in mm.t |-> mm.SOC_start],
               !.P_m = [t \in mm.t |-> mm.P_l[t]],
               !.u = [t \in mm.t |-> IF mm.kind = "battery_model_no_eff"
                                     THEN 0 ELSE NoValue]]

NoSelfDischarge == QEq(input_scalar.eta_self, Q(0))

\* C17: with zero self-discharge and SOC_min <= SOC_start <= SOC_max the idle
\* schedule (P_c = P_d = 0, S = SOC_start) satisfies every constraint of the
\* formulation that was built, for every horizon T >= 1; the solve therefore
\* never ends infeasible, its optimum does not cost more than idling, and the
\* total battery_profit of the result table is >= 0.
C17_IdleFeasible ==
    (pc # "start" /\ NoSelfDischarge /\ StartWithinBounds) =>
        /\ Feasible(IdleSchedule(m))
        /\ \A t \in m.t : power_balance_rule(IdleSchedule(m), t)
        /\ m.status = "optimal"
        /\ pc # "raised"
        /\ objective(m) <= objective(IdleSchedule(m))
        /\ pc = "done" => TotalBatteryProfit >= 0

\* a battery starting at SOC_min on the longest horizon whose solution is
\* not idle and earns a positive total battery_profit
C17_Witness ==
    /\ pc = "done"
    /\ NoSelfDischarge
    /\ StartWithinBounds
    /\ Horizon = MaxT
    /\ QEq(input_scalar.SOC_start, input_scalar.SOC_min)
    /\ ~Idle
    /\ TotalBatteryProfit > 0

====
